---------------------------- MODULE Spec2Model ----------------------------
(***************************************************************************)
(* The blocking-accept TCP responder of shinchan-go: main binds :8080 and  *)
(* runs the accept loop, every accepted connection is handed to its own    *)
(* goroutine running doSomething (one Read, one log line, one Write, one   *)
(* Close).  log.Fatalf writes its line and ends the whole process with     *)
(* os.Exit(1); the kernel then closes every descriptor of the process.     *)
(* The peers (TCP clients) are the environment: they connect, send bytes,  *)
(* half-close (FIN) or reset (RST).                                        *)
(* Two further specifications apply the pure functions of the repository   *)
(* to bounded inputs: SpecRatio runs calculateSalesRatio against every     *)
(* ShopModel of ShopModels, SpecScale runs scale and then updatedScale on  *)
(* every int32 slice of Slices.                                            *)
(***************************************************************************)
EXTENDS Integers, Sequences, FiniteSets, TLC

\* ---------------------------------------------------------------- bounds
MaxConns == 2        \* number of clients that may connect
MaxSends == 1        \* number of send calls the clients make altogether
MaxCount == 3        \* largest small count a ShopModel returns
MaxLen == 2          \* longest slice handed to scale and updatedScale

\* ------------------------------------------------------ program constants
BufSize == 1024      \* make([]byte, 1024)
Payload == "HTTP/1.1 200 OK\r\n\r\nHello, World\r\n"

Conns == 1..MaxConns
NoConn == 0
\* sizes of one client send: a single byte, a full buffer, one byte more
ChunkSizes == {1, BufSize, BufSize + 1}

VARIABLES
    mpc,        \* position of main: "listen", "accept", "logconn", "spawn"
    exited,     \* the process has terminated (os.Exit inside log.Fatalf)
    exitBy,     \* which call site terminated it
    lsock,      \* listening socket: "unbound", "listening", "released"
    backlog,    \* established connections not yet returned by Accept
    cur,        \* conn held by main between Accept and the go statement
    peer,       \* client side of each connection
    sent,       \* bytes each client has sent so far
    nsends,     \* send calls the clients have made
    rq,         \* bytes received by the kernel and not yet read
    fd,         \* server side descriptor of each connection
    tasks,      \* the goroutines started by the go statement, in order
    ops,        \* per connection: the calls made on it, with the caller
    out,        \* per connection: payloads whose Write returned no error
    log,        \* the lines written by slog.Info and log.Fatalf, in order
    aerr,       \* main's err after the latest listener.Accept()
    frame       \* the call of a pure function under study, with its locals

vars == <<mpc, exited, exitBy, lsock, backlog, cur, peer, sent, nsends, rq,
          fd, tasks, ops, out, log, aerr, frame>>

\* the variables of the server
svars == <<mpc, exited, exitBy, lsock, backlog, cur, peer, sent, nsends, rq,
           fd, tasks, ops, out, log, aerr>>

Min(a, b) == IF a <= b THEN a ELSE b

\* the server makes no call of the library functions
NoCall == [fn |-> "none"]

TaskIds == 1..Len(tasks)

\* ------------------------------------------------------------ Init
\* main has not run yet
ServerInit ==
    /\ mpc = "listen"
    /\ exited = FALSE
    /\ exitBy = "none"
    /\ lsock = "unbound"
    /\ backlog = <<>>
    /\ cur = NoConn
    /\ peer = [c \in Conns |-> "idle"]
    /\ sent = [c \in Conns |-> 0]
    /\ nsends = 0
    /\ rq = [c \in Conns |-> 0]
    /\ fd = [c \in Conns |-> "none"]
    /\ tasks = <<>>
    /\ ops = [c \in Conns |-> <<>>]
    /\ out = [c \in Conns |-> <<>>]
    /\ log = <<>>
    /\ aerr = "nil"

Init ==
    /\ ServerInit
    /\ frame = NoCall

\* one line of the log
LogLine(k, c, n) == [kind |-> k, conn |-> c, n |-> n]

\* one entry of a connection's call history
Call(o, t, ok) == [op |-> o, by |-> t, ok |-> ok]

\* ------------------------------------------------- process termination
\* os.Exit: the kernel closes every descriptor the process still holds.
FdsAfterExit(f) ==
    [c \in Conns |-> IF f[c] = "open" THEN "oskilled" ELSE f[c]]

\* log.Fatalf(...): one log line, then os.Exit(1).
Fatalf(site, c) ==
    /\ log' = Append(log, LogLine("fatal", c, 0))
    /\ exited' = TRUE
    /\ exitBy' = site
    /\ lsock' = IF lsock = "listening" THEN "released" ELSE lsock
    /\ fd' = FdsAfterExit(fd)


\* ------------------------------------------------------------ clients
\* A client completes the TCP handshake; the connection waits in the
\* listener's backlog until Accept returns it.  Connections are numbered
\* in the order in which they are established.
Connect(c) ==
    /\ ~exited
    /\ lsock = "listening"
    /\ peer[c] = "idle"
    /\ \A d \in Conns : d < c => peer[d] # "idle"
    /\ peer' = [peer EXCEPT ![c] = "open"]
    /\ backlog' = Append(backlog, c)
    /\ UNCHANGED <<frame, mpc, exited, exitBy, lsock, cur, sent, nsends, rq, fd,
                   tasks, ops, out, log, aerr>>

\* The server side of c can still receive.
Receiving(c) == ~exited /\ fd[c] \in {"none", "open"}

ClientSend(c, k) ==
    /\ peer[c] = "open"
    /\ Receiving(c)
    /\ nsends < MaxSends
    /\ sent' = [sent EXCEPT ![c] = @ + k]
    /\ nsends' = nsends + 1
    /\ rq' = [rq EXCEPT ![c] = @ + k]
    /\ UNCHANGED <<frame, mpc, exited, exitBy, lsock, backlog, cur, peer, fd,
                   tasks, ops, out, log, aerr>>

\* The client shuts down its sending side (FIN); it can still receive.
ClientClose(c) ==
    /\ peer[c] = "open"
    /\ Receiving(c)
    /\ peer' = [peer EXCEPT ![c] = "fin"]
    /\ UNCHANGED <<frame, mpc, exited, exitBy, lsock, backlog, cur, sent, nsends,
                   rq, fd, tasks, ops, out, log, aerr>>

\* The connection is reset (RST): unread data is dropped, every later
\* Read and Write on it fails.
ClientReset(c) ==
    /\ peer[c] \in {"open", "fin"}
    /\ Receiving(c)
    /\ peer' = [peer EXCEPT ![c] = "rst"]
    /\ rq' = [rq EXCEPT ![c] = 0]
    /\ UNCHANGED <<frame, mpc, exited, exitBy, lsock, backlog, cur, sent, nsends,
                   fd, tasks, ops, out, log, aerr, frame>>

\* ------------------------------------------------------------ main
\* net.Listen succeeds; slog.Info("Server listening", ...).
ListenOk ==
    /\ ~exited
    /\ mpc = "listen"
    /\ lsock' = "listening"
    /\ log' = Append(log, LogLine("listening", NoConn, 0))
    /\ mpc' = "accept"
    /\ UNCHANGED <<frame, exited, exitBy, backlog, cur, peer, sent, nsends, rq, fd,
                   tasks, ops, out, aerr>>

\* net.Listen fails: log.Fatalf.
ListenFail ==
    /\ ~exited
    /\ mpc = "listen"
    /\ Fatalf("listen", NoConn)
    /\ UNCHANGED <<frame, mpc, backlog, cur, peer, sent, nsends, rq, tasks, ops,
                   out, aerr>>

\* doSomething(conn) called without `go`: the loop comes back to Accept
\* only when every handler has returned.
CanAccept_Serial ==
    /\ ~exited
    /\ mpc = "accept"
    /\ backlog # <<>>
    /\ \A t \in TaskIds : tasks[t].pc = "done"

\* May the accept loop call Accept and get a connection now?
CanAccept ==
    /\ ~exited
    /\ mpc = "accept"
    /\ backlog # <<>>

\* listener.Accept() returns the oldest established connection.
AcceptOk ==
    /\ CanAccept
    /\ cur' = Head(backlog)
    /\ backlog' = Tail(backlog)
    /\ fd' = [fd EXCEPT ![Head(backlog)] = "open"]
    /\ aerr' = "nil"
    /\ mpc' = "logconn"
    /\ UNCHANGED <<frame, exited, exitBy, lsock, peer, sent, nsends, rq, tasks,
                   ops, out, log>>

AcceptErrKinds == {"transient", "fatal"}

\* listener.Accept() returns an error: whatever it is, log.Fatalf.
AcceptFail(e) ==
    /\ ~exited
    /\ mpc = "accept"
    /\ aerr' = e
    /\ Fatalf("accept", NoConn)
    /\ UNCHANGED <<frame, mpc, backlog, cur, peer, sent, nsends, rq, tasks, ops,
                   out>>

\* the loop without its slog.Info line
LogConn_Skip ==
    /\ ~exited
    /\ mpc = "logconn"
    /\ mpc' = "spawn"
    /\ UNCHANGED <<frame, exited, exitBy, lsock, backlog, cur, peer, sent, nsends,
                   rq, fd, tasks, ops, out, log, aerr>>

\* slog.Info("connection waiting for accept. ", "conn", conn)
LogConn ==
    /\ ~exited
    /\ mpc = "logconn"
    /\ log' = Append(log, LogLine("accepted", cur, 0))
    /\ mpc' = "spawn"
    /\ UNCHANGED <<frame, exited, exitBy, lsock, backlog, cur, peer, sent, nsends,
                   rq, fd, tasks, ops, out, aerr>>

\* a doSomething that starts at its Write, without the Read
NewTask_NoRead(c) == [conn |-> c, pc |-> "write", n |-> 0, err |-> "nil"]

\* the goroutine at the first statement of doSomething(conn)
NewTask(c) == [conn |-> c, pc |-> "read", n |-> 0, err |-> "nil"]

\* the go statement executed twice for one connection
Dispatch_Twice(ts, c) == Append(Append(ts, NewTask(c)), NewTask(c))

\* the goroutines that exist after `go doSomething(conn)`
Dispatch(ts, c) == Append(ts, NewTask(c))

\* go doSomething(conn), then back to the top of the loop
Spawn ==
    /\ ~exited
    /\ mpc = "spawn"
    /\ tasks' = Dispatch(tasks, cur)
    /\ cur' = NoConn
    /\ mpc' = "accept"
    /\ UNCHANGED <<frame, exited, exitBy, lsock, backlog, peer, sent, nsends, rq,
                   fd, ops, out, log, aerr>>

\* ------------------------------------------------------------ doSomething
\* conn.Read returns once data, a FIN or an RST is there.
Readable(c) == rq[c] > 0 \/ peer[c] \in {"fin", "rst"}

\* The goroutine t sits in conn.Read and nothing lets the call return.
BlockedInRead(t) ==
    /\ tasks[t].pc = "read"
    /\ ~Readable(tasks[t].conn)

\* a Read that ignores the capacity of its buffer
ReadCount_NoCap(avail) == avail

\* n of a Read that finds avail unread bytes
ReadCount(avail) == Min(avail, BufSize)

\* n, err := conn.Read(make([]byte, 1024)) with err == nil
ReadOk(t) ==
    LET c == tasks[t].conn IN
    /\ ~exited
    /\ tasks[t].pc = "read"
    /\ peer[c] # "rst"
    /\ rq[c] > 0
    /\ tasks' = [tasks EXCEPT ![t].n = ReadCount(rq[c]), ![t].pc = "log"]
    /\ rq' = [rq EXCEPT ![c] = @ - ReadCount(rq[c])]
    /\ ops' = [ops EXCEPT ![c] = Append(@, Call("read", t, TRUE))]
    /\ UNCHANGED <<frame, mpc, exited, exitBy, lsock, backlog, cur, peer, sent,
                   nsends, fd, out, log, aerr>>

\* err of a Read that has no data to return
ReadError(p) == IF p = "rst" THEN "ECONNRESET" ELSE "EOF"

\* conn.Read returns 0 and an error (io.EOF after a FIN, ECONNRESET after
\* an RST): log.Fatalf ends the process.
ReadFail(t) ==
    LET c == tasks[t].conn IN
    /\ ~exited
    /\ tasks[t].pc = "read"
    /\ \/ peer[c] = "rst"
       \/ peer[c] = "fin" /\ rq[c] = 0
    /\ tasks' = [tasks EXCEPT ![t].n = 0, ![t].err = ReadError(peer[c]),
                              ![t].pc = "fatal"]
    /\ ops' = [ops EXCEPT ![c] = Append(@, Call("read", t, FALSE))]
    /\ Fatalf("read", c)
    /\ UNCHANGED <<frame, mpc, backlog, cur, peer, sent, nsends, rq, out, aerr>>

\* slog.Info("number of bytes" + strconv.Itoa(n))
LogBytes(t) ==
    /\ ~exited
    /\ tasks[t].pc = "log"
    /\ log' = Append(log, LogLine("bytes", tasks[t].conn, tasks[t].n))
    /\ tasks' = [tasks EXCEPT ![t].pc = "write"]
    /\ UNCHANGED <<frame, mpc, exited, exitBy, lsock, backlog, cur, peer, sent,
                   nsends, rq, fd, ops, out, aerr>>

\* conn.Write([]byte(Payload)): both results are discarded.
WriteResp(t) ==
    LET c == tasks[t].conn
        ok == peer[c] # "rst" IN
    /\ ~exited
    /\ tasks[t].pc = "write"
    /\ out' = [out EXCEPT ![c] = IF ok THEN Append(@, Payload) ELSE @]
    /\ ops' = [ops EXCEPT ![c] = Append(@, Call("write", t, ok))]
    /\ tasks' = [tasks EXCEPT ![t].pc = "close"]
    /\ UNCHANGED <<frame, mpc, exited, exitBy, lsock, backlog, cur, peer, sent,
                   nsends, rq, fd, log, aerr>>

\* a handler that also closes the listener when it is done
CloseConn_AndListener(t) ==
    LET c == tasks[t].conn IN
    /\ ~exited
    /\ tasks[t].pc = "close"
    /\ fd' = [fd EXCEPT ![c] = "closed"]
    /\ ops' = [ops EXCEPT ![c] = Append(@, Call("close", t, TRUE))]
    /\ tasks' = [tasks EXCEPT ![t].pc = "done"]
    /\ lsock' = "released"
    /\ UNCHANGED <<frame, mpc, exited, exitBy, backlog, cur, peer, sent,
                   nsends, rq, out, log, aerr>>

\* conn.Close(); doSomething returns.
CloseConn(t) ==
    LET c == tasks[t].conn IN
    /\ ~exited
    /\ tasks[t].pc = "close"
    /\ fd' = [fd EXCEPT ![c] = "closed"]
    /\ ops' = [ops EXCEPT ![c] = Append(@, Call("close", t, TRUE))]
    /\ tasks' = [tasks EXCEPT ![t].pc = "done"]
    /\ UNCHANGED <<frame, mpc, exited, exitBy, lsock, backlog, cur, peer, sent,
                   nsends, rq, out, log, aerr>>

\* ------------------------------------------------------------ Next
Next ==
    \/ \E c \in Conns : Connect(c)
    \/ \E c \in Conns, k \in ChunkSizes : ClientSend(c, k)
    \/ \E c \in Conns : ClientClose(c)
    \/ \E c \in Conns : ClientReset(c)
    \/ ListenOk
    \/ ListenFail
    \/ AcceptOk
    \/ \E e \in AcceptErrKinds : AcceptFail(e)
    \/ LogConn
    \/ Spawn
    \/ \E t \in TaskIds : ReadOk(t)
    \/ \E t \in TaskIds : ReadFail(t)
    \/ \E t \in TaskIds : LogBytes(t)
    \/ \E t \in TaskIds : WriteResp(t)
    \/ \E t \in TaskIds : CloseConn(t)

Spec == Init /\ [][Next]_vars

TypeOK ==
    /\ mpc \in {"listen", "accept", "logconn", "spawn"}
    /\ exited \in BOOLEAN
    /\ exitBy \in {"none", "listen", "accept", "read"}
    /\ lsock \in {"unbound", "listening", "released"}
    /\ cur \in Conns \cup {NoConn}
    /\ \A c \in Conns :
          /\ peer[c] \in {"idle", "open", "fin", "rst"}
          /\ fd[c] \in {"none", "open", "closed", "oskilled"}
          /\ rq[c] \in Nat /\ sent[c] \in Nat
    /\ nsends \in 0..MaxSends
    /\ aerr \in {"nil"} \cup AcceptErrKinds


\* ------------------------------------------------------------ histories
ConnTasks(c) == {t \in TaskIds : tasks[t].conn = c}
Accepted(c) == fd[c] # "none"
LogIdx(k, c) == {i \in 1..Len(log) : log[i].kind = k /\ log[i].conn = c}
OpIdx(c, o) == {i \in 1..Len(ops[c]) : ops[c][i].op = o}
FailedIdx(c, o) == {i \in OpIdx(c, o) : ~ops[c][i].ok}
\* doSomething of goroutine t is over: it returned, or it ended the process
Ended(t) == tasks[t].pc \in {"done", "fatal"}

\* C1: once the handler of an accepted connection is over, the payload
\* has been written on that connection exactly once (and nothing else),
\* whatever the client sent.
C1_PayloadWrittenOnce ==
    \A t \in TaskIds : Ended(t) => out[tasks[t].conn] = <<Payload>>

\* C2: once the handler of a connection is over, on whatever path, it has
\* closed the connection exactly once.
C2_ClosedExactlyOnce ==
    \A t \in TaskIds :
        Ended(t) => Cardinality(OpIdx(tasks[t].conn, "close")) = 1

\* C3: a step in which a handler's Read or Write fails leaves the process
\* running and the accept loop and the listening socket as they were.
C3_HandlerErrorIsolated ==
    [][\A c \in Conns :
          Len(ops'[c]) > Len(ops[c]) /\ ~ops'[c][Len(ops'[c])].ok
             => ~exited' /\ mpc' = mpc /\ lsock' = lsock]_vars

\* C4: while some handler is blocked in its Read and the process runs, the
\* accept loop is not held up (Accept returns a waiting connection, the log
\* line and the go statement can run) and every other handler can take its
\* next step (Read with data, log, Write, Close).
C4_BlockedReadDelaysNobody ==
    \A a \in TaskIds :
        (~exited /\ BlockedInRead(a)) =>
            /\ (mpc = "accept" /\ backlog # <<>>) => ENABLED AcceptOk
            /\ mpc = "logconn" => ENABLED LogConn
            /\ mpc = "spawn" => ENABLED Spawn
            /\ \A b \in TaskIds \ {a} :
                  /\ (tasks[b].pc = "read" /\ rq[tasks[b].conn] > 0
                        /\ peer[tasks[b].conn] # "rst") => ENABLED ReadOk(b)
                  /\ tasks[b].pc = "log" => ENABLED LogBytes(b)
                  /\ tasks[b].pc = "write" => ENABLED WriteResp(b)
                  /\ tasks[b].pc = "close" => ENABLED CloseConn(b)

\* C4 witness: the client of A has sent nothing and keeps the connection
\* open, A's handler sits in Read, and a connection accepted after A has
\* been read, answered and closed by its own handler.
C4_Witness ==
    \E a \in TaskIds, b \in TaskIds :
        /\ a < b
        /\ ~exited
        /\ BlockedInRead(a)
        /\ sent[tasks[a].conn] = 0
        /\ tasks[b].pc = "done"
        /\ out[tasks[b].conn] = <<Payload>>
        /\ fd[tasks[b].conn] = "closed"

\* C5: a handler whose Read returned an error, or zero bytes, has not
\* ended the process and goes to Close without writing the response.
C5_ReadFailureGoesToClose ==
    \A t \in TaskIds :
        (OpIdx(tasks[t].conn, "read") # {}
            /\ (tasks[t].err # "nil" \/ tasks[t].n = 0)) =>
                /\ ~exited
                /\ tasks[t].pc \in {"close", "done"}
                /\ OpIdx(tasks[t].conn, "write") = {}

\* C6: a failed Write is logged, does not end the process and does not
\* keep the handler from closing its connection.
C6_WriteFailureLogged ==
    \A c \in Conns :
        FailedIdx(c, "write") # {} =>
            /\ LogIdx("writeerr", c) # {}
            /\ exitBy # "write"
            /\ \A t \in ConnTasks(c) : tasks[t].pc \in {"close", "done"}

C8_TransientAcceptContinues ==
    aerr = "transient" => ~exited /\ mpc = "accept"

\* C9: a connection has no task before it is accepted, never more than
\* one, exactly one once main has passed the go statement for it, and every
\* Read, Write and Close on it was made by that task.
C9_OneTaskPerConn ==
    \A c \in Conns :
        /\ Cardinality(ConnTasks(c)) <= 1
        /\ ~Accepted(c) => ConnTasks(c) = {}
        /\ (Accepted(c) /\ cur # c) => Cardinality(ConnTasks(c)) = 1
        /\ \A i \in 1..Len(ops[c]) : ops[c][i].by \in ConnTasks(c)
        /\ Cardinality({ops[c][i].by : i \in 1..Len(ops[c])}) <= 1

\* C9 witness: two connections with a task each; one of them has been
\* read, written and closed, all three by its own task.
C9_Witness ==
    \E c \in Conns, d \in Conns :
        /\ c # d
        /\ ConnTasks(c) # {} /\ ConnTasks(d) # {}
        /\ ConnTasks(c) \cap ConnTasks(d) = {}
        /\ Len(ops[c]) = 3
        /\ \A i \in 1..3 : ops[c][i].by \in ConnTasks(c)

\* C10: per connection the accept line is logged at most once and is there
\* before the handler exists; the byte-count line is logged at most once,
\* after the accept line; a handler that returned has logged its byte
\* count.
C10_LogOrderPerConn ==
    \A c \in Conns :
        /\ Cardinality(LogIdx("accepted", c)) <= 1
        /\ Cardinality(LogIdx("bytes", c)) <= 1
        /\ ConnTasks(c) # {} => LogIdx("accepted", c) # {}
        /\ \A i \in LogIdx("bytes", c) :
              \E j \in LogIdx("accepted", c) : j < i
        /\ \A t \in ConnTasks(c) :
              tasks[t].pc \in {"write", "close", "done"}
                  <=> LogIdx("bytes", c) # {}

\* C10 witness: the handler of the connection accepted second has logged
\* its byte count and returned while the handler of the first one, whose
\* accept line is older, has not logged anything yet.
C10_Witness ==
    \E i \in 1..Len(log), t \in TaskIds, u \in TaskIds :
        /\ u < t
        /\ log[i].kind = "bytes" /\ log[i].conn = tasks[t].conn
        /\ tasks[t].pc = "done"
        /\ tasks[u].pc = "read"
        /\ LogIdx("accepted", tasks[u].conn) # {}
        /\ LogIdx("bytes", tasks[u].conn) = {}


\* the names of the calls made on connection c, in order
OpNames(c) == [i \in 1..Len(ops[c]) |-> ops[c][i].op]

\* C11: the calls on a connection are a prefix of Read, Write, Close (one
\* read, then at most one write, then the close, nothing after it), and a
\* handler that is over after its Read returned, on whichever branch, has
\* made all three and left the connection closed.
C11_ConnStateMachine ==
    \A c \in Conns :
        /\ OpNames(c) = SubSeq(<<"read", "write", "close">>, 1, Len(ops[c]))
        /\ \A t \in ConnTasks(c) :
              (Ended(t) /\ ops[c] # <<>>) =>
                  OpNames(c) = <<"read", "write", "close">> /\ fd[c] = "closed"

\* C13: the listening socket changes state only when main binds it or when
\* the process ends; a handler step that does not end the process leaves
\* it alone; it is bound for as long as the accept loop runs and it is no
\* longer bound once the loop has stopped.
C13_ListenerOwnedByLoop ==
    /\ [](exited => lsock # "listening")
    /\ []((~exited /\ mpc # "listen") => lsock = "listening")
    /\ [][lsock' # lsock =>
             \/ mpc = "listen" /\ mpc' = "accept" /\ lsock' = "listening"
             \/ ~exited /\ exited' /\ lsock' = "released"]_vars
    /\ [][(~exited' /\ (tasks' # tasks \/ ops' # ops)) =>
             lsock' = lsock]_vars

\* C13 witness: a handler has run to its end, then a fatal Accept error
\* stopped the loop, and the listening socket is released.
C13_Witness ==
    /\ exited
    /\ exitBy = "accept"
    /\ aerr = "fatal"
    /\ lsock = "released"
    /\ \E t \in TaskIds : tasks[t].pc = "done"

\* C14: every Write on a connection, failed or not, comes after a Read on
\* it that returned without error; so a connection whose client has sent
\* nothing has no Write and no response byte.
C14_NoWriteBeforeRead ==
    \A c \in Conns :
        /\ \A i \in OpIdx(c, "write") :
              \E j \in OpIdx(c, "read") : j < i /\ ops[c][j].ok
        /\ out[c] # <<>> => \E j \in OpIdx(c, "read") : ops[c][j].ok
        /\ sent[c] = 0 => (out[c] = <<>> /\ OpIdx(c, "write") = {})

\* C14 witness: a client that connected first, sent nothing and keeps the
\* connection open has received nothing, its handler still in Read, while
\* a later client has sent data and has its response.
C14_Witness ==
    \E t \in TaskIds, u \in TaskIds :
        /\ ~exited
        /\ tasks[t].conn < tasks[u].conn
        /\ peer[tasks[t].conn] = "open"
        /\ sent[tasks[t].conn] = 0
        /\ tasks[t].pc = "read"
        /\ out[tasks[t].conn] = <<>>
        /\ sent[tasks[u].conn] > 0
        /\ out[tasks[u].conn] = <<Payload>>


\* ------------------------------------------------ calculateSalesRatio
Abs(x) == IF x < 0 THEN -x ELSE x

\* Go's integer division truncates toward zero (b # 0)
GoQuo(a, b) ==
    IF (a < 0) = (b < 0) THEN Abs(a) \div Abs(b) ELSE -(Abs(a) \div Abs(b))

\* A float64 is kept as its number of hundredths, which is exact for the
\* whole numbers converted here.  float64(i):
F64FromInt(i) == i * 100

Digit(d) ==
    CASE d = 0 -> "0" [] d = 1 -> "1" [] d = 2 -> "2" [] d = 3 -> "3"
      [] d = 4 -> "4" [] d = 5 -> "5" [] d = 6 -> "6" [] d = 7 -> "7"
      [] d = 8 -> "8" [] d = 9 -> "9"

RECURSIVE NatStr(_)
\* the decimal digits of a natural number
NatStr(n) == IF n < 10 THEN Digit(n) ELSE NatStr(n \div 10) \o Digit(n % 10)

\* fmt.Sprintf("%.2f", f): sign, whole part, point, two decimals
SprintfF2(h) ==
    (IF h < 0 THEN "-" ELSE "") \o NatStr(Abs(h) \div 100) \o "."
        \o Digit((Abs(h) % 100) \div 10) \o Digit(Abs(h) % 10)

\* float64(customer) / float64(sales), rounded to hundredths as %.2f
\* would print it
RatioValue_FloatDiv(customer, sales) ==
    LET n == Abs(customer) * 100
        d == Abs(sales)
        q == (2 * n + d) \div (2 * d)
    IN  IF (customer < 0) = (sales < 0) THEN q ELSE -q

\* float64(customer / sales)
RatioValue(customer, sales) == F64FromInt(GoQuo(customer, sales))

\* what the two error branches return, e being the error at hand
ErrReturn_Propagate(e) == [s |-> "", err |-> e]

\* return "", nil
ErrReturn(e) == [s |-> "", err |-> "nil"]

\* the counts a ShopModel may answer: small ones of either sign, and those
\* of mongoDb (1000, 300) and of MockShopDB (1000, 333)
Counts == (-MaxCount..MaxCount) \cup {300, 333, 1000}

\* the implementations of ShopModel: what each method returns
ShopModels ==
    [customers : Counts, cerr : BOOLEAN, sales : Counts, serr : BOOLEAN]

RatioFrame(db) ==
    [fn |-> "calculateSalesRatio", db |-> db, pc |-> "customers",
     customer |-> 0, sales |-> 0, calls |-> <<>>,
     ret |-> [s |-> "", err |-> "nil"], panic |-> "none"]

InitRatio ==
    /\ ServerInit
    /\ \E db \in ShopModels : frame = RatioFrame(db)

\* customer, err := shopModel.CountCustomers(since), err == nil
CountCustomersOk ==
    /\ frame.pc = "customers"
    /\ ~frame.db.cerr
    /\ frame' = [frame EXCEPT !.calls = Append(@, "CountCustomers"),
                              !.customer = frame.db.customers,
                              !.pc = "sales"]
    /\ UNCHANGED svars

\* CountCustomers fails: return "", nil
CountCustomersErr ==
    /\ frame.pc = "customers"
    /\ frame.db.cerr
    /\ frame' = [frame EXCEPT !.calls = Append(@, "CountCustomers"),
                              !.ret = ErrReturn("customers failed"),
                              !.pc = "returned"]
    /\ UNCHANGED svars

\* sales, err := shopModel.CountSales(since), err == nil
CountSalesOk ==
    /\ frame.pc = "sales"
    /\ ~frame.db.serr
    /\ frame' = [frame EXCEPT !.calls = Append(@, "CountSales"),
                              !.sales = frame.db.sales,
                              !.pc = "divide"]
    /\ UNCHANGED svars

\* CountSales fails: return "", nil
CountSalesErr ==
    /\ frame.pc = "sales"
    /\ frame.db.serr
    /\ frame' = [frame EXCEPT !.calls = Append(@, "CountSales"),
                              !.ret = ErrReturn("sales failed"),
                              !.pc = "returned"]
    /\ UNCHANGED svars

\* a division that answers the empty string when the divisor is zero
DivideByZero_Returns ==
    /\ frame.pc = "divide"
    /\ frame.sales = 0
    /\ frame' = [frame EXCEPT !.pc = "returned"]
    /\ UNCHANGED svars

\* customer/sales with sales == 0: run-time panic, nothing is returned
DivideByZero ==
    /\ frame.pc = "divide"
    /\ frame.sales = 0
    /\ frame' = [frame EXCEPT !.panic = "integer divide by zero",
                              !.pc = "panicked"]
    /\ UNCHANGED svars

\* return fmt.Sprintf("%.2f", float64(customer/sales)), nil
FormatRatio ==
    /\ frame.pc = "divide"
    /\ frame.sales # 0
    /\ frame' = [frame EXCEPT
                    !.ret = [s |-> SprintfF2(RatioValue(frame.customer,
                                                        frame.sales)),
                             err |-> "nil"],
                    !.pc = "returned"]
    /\ UNCHANGED svars

NextRatio ==
    \/ CountCustomersOk
    \/ CountCustomersErr
    \/ CountSalesOk
    \/ CountSalesErr
    \/ DivideByZero
    \/ FormatRatio

SpecRatio == InitRatio /\ [][NextRatio]_vars

\* both counts came back without error
BothCountsOk == ~frame.db.cerr /\ ~frame.db.serr

\* q is c/s with the fraction cut off
IsTruncatedQuotient(q, c, s) ==
    /\ Abs(q) * Abs(s) <= Abs(c)
    /\ Abs(c) < (Abs(q) + 1) * Abs(s)
    /\ q > 0 => (c < 0) = (s < 0)
    /\ q < 0 => (c < 0) # (s < 0)

\* C12: when both counts succeed with a non-zero sales count, the call
\* returns a nil error and the quotient with its fraction cut off, printed
\* with the two decimals "00"; 1000 and 333 give "3.00".
C12_TruncatedRatio ==
    (frame.pc = "returned" /\ BothCountsOk) =>
        /\ frame.db.sales # 0
        /\ frame.ret.err = "nil"
        /\ \E q \in -1000..1000 :
              /\ IsTruncatedQuotient(q, frame.db.customers, frame.db.sales)
              /\ frame.ret.s =
                    (IF q < 0 THEN "-" ELSE "") \o NatStr(Abs(q)) \o ".00"
        /\ (frame.db.customers = 1000 /\ frame.db.sales = 333) =>
              frame.ret.s = "3.00"
        /\ (frame.db.customers = 1000 /\ frame.db.sales = 300) =>
              frame.ret.s = "3.00"
        /\ (frame.db.customers = -3 /\ frame.db.sales = 2) =>
              frame.ret.s = "-1.00"
        /\ (frame.db.customers = 1 /\ frame.db.sales = 2) =>
              frame.ret.s = "0.00"

\* C12 witness: the test's mock, 1000 customers and 333 sales, answered
\* with "3.00".
C12_Witness ==
    /\ frame.pc = "returned"
    /\ BothCountsOk
    /\ frame.db.customers = 1000
    /\ frame.db.sales = 333
    /\ frame.ret = [s |-> "3.00", err |-> "nil"]

\* C15: whatever is returned carries a nil error; a failed count gives the
\* empty string; after a failed CountCustomers no CountSales call is made.
C15_ErrorsSwallowed ==
    /\ frame.pc = "returned" => frame.ret.err = "nil"
    /\ (frame.db.cerr /\ frame.pc # "customers") =>
          /\ frame.pc = "returned"
          /\ frame.ret.s = ""
          /\ frame.calls = <<"CountCustomers">>
    /\ (~frame.db.cerr /\ frame.db.serr
           /\ frame.pc \notin {"customers", "sales"}) =>
          /\ frame.pc = "returned"
          /\ frame.ret.s = ""
          /\ frame.calls = <<"CountCustomers", "CountSales">>

\* C15 witness: both methods would fail; the call has returned after the
\* one CountCustomers call.
C15_Witness ==
    /\ frame.db.cerr /\ frame.db.serr
    /\ frame.pc = "returned"
    /\ frame.calls = <<"CountCustomers">>
    /\ frame.ret = [s |-> "", err |-> "nil"]

\* C16: with both counts successful and a sales count of 0 the call never
\* returns; once both counts are in, its only continuation is the
\* divide-by-zero panic; and it panics in no other case.
C16_ZeroSalesPanics ==
    /\ (BothCountsOk /\ frame.db.sales = 0) =>
          /\ frame.pc # "returned"
          /\ frame.pc = "divide" => (ENABLED DivideByZero /\ ~ENABLED FormatRatio)
          /\ frame.pc \notin {"customers", "sales", "divide"} =>
                /\ frame.pc = "panicked"
                /\ frame.panic = "integer divide by zero"
                /\ frame.ret = [s |-> "", err |-> "nil"]
    /\ frame.pc = "panicked" => (BothCountsOk /\ frame.db.sales = 0)

\* C16 witness: 1000 customers, 0 sales, no error: panicked.
C16_Witness ==
    /\ BothCountsOk
    /\ frame.db.customers = 1000
    /\ frame.db.sales = 0
    /\ frame.pc = "panicked"


\* ------------------------------------------------ scale, updatedScale
\* the int32 of Points and of main's arr
MaxInt32 == 2147483647
MinInt32 == -MaxInt32 - 1
Int32 == MinInt32..MaxInt32

\* byte k (0 is the lowest) of the two's complement form of x
Limb(x, k) == (x \div (256 ^ k)) % 256

\* the int32 with the bytes b0 (lowest) .. b3
FromLimbs(b0, b1, b2, b3) ==
    (IF b3 >= 128 THEN b3 - 256 ELSE b3) * 16777216
        + b2 * 65536 + b1 * 256 + b0

\* e * c in int32: the low 32 bits of the product, computed byte by byte
Mul32(a, b) ==
    LET p0 == Limb(a, 0) * Limb(b, 0)
        p1 == Limb(a, 0) * Limb(b, 1) + Limb(a, 1) * Limb(b, 0)
                + (p0 \div 256)
        p2 == Limb(a, 0) * Limb(b, 2) + Limb(a, 1) * Limb(b, 1)
                + Limb(a, 2) * Limb(b, 0) + (p1 \div 256)
        p3 == Limb(a, 0) * Limb(b, 3) + Limb(a, 1) * Limb(b, 2)
                + Limb(a, 2) * Limb(b, 1) + Limb(a, 3) * Limb(b, 0)
                + (p2 \div 256)
    IN  FromLimbs(p0 % 256, p1 % 256, p2 % 256, p3 % 256)

\* make([]E, n): n zero elements
MakeSlice(n) == [i \in 1..n |-> 0]

\* r[i] = e * c in scale
ScaleElem(e, c) == Mul32(e, c)

\* an updatedScale that copies the element
UpdatedScaleElem_Copy(e, c) == e

\* r[i] = e * c in updatedScale
UpdatedScaleElem(e, c) == Mul32(e, c)

\* elements and factors: the ends of int32, values around zero, main's 2
Elems32 == {MinInt32, -1, 0, 1, 2, MaxInt32}
Factors32 == {MinInt32, -1, 0, 2, 3, MaxInt32}

\* the slices of at most MaxLen elements
Slices == UNION {[1..n -> Elems32] : n \in 0..MaxLen}

ScaleFrame(s, c) ==
    [fn |-> "scale", s |-> s, s0 |-> s, c |-> c, pc |-> "scale",
     i |-> 0, r |-> <<>>, rs |-> <<>>, ru |-> <<>>]

InitScale ==
    /\ ServerInit
    /\ \E s \in Slices, c \in Factors32 : frame = ScaleFrame(s, c)

\* scale: r := make([]E, len(s))
ScaleMake ==
    /\ frame.pc = "scale"
    /\ frame' = [frame EXCEPT !.r = MakeSlice(Len(frame.s)), !.i = 0,
                              !.pc = "scale.loop"]
    /\ UNCHANGED svars

\* scale: one round of for i, e := range s { r[i] = e * c }
ScaleIter ==
    /\ frame.pc = "scale.loop"
    /\ frame.i < Len(frame.s)
    /\ frame' = [frame EXCEPT
                    !.r[frame.i + 1] = ScaleElem(frame.s[frame.i + 1], frame.c),
                    !.i = @ + 1]
    /\ UNCHANGED svars

\* scale: return r; the caller goes on to updatedScale with the same input
ScaleReturn ==
    /\ frame.pc = "scale.loop"
    /\ frame.i = Len(frame.s)
    /\ frame' = [frame EXCEPT !.rs = frame.r, !.r = <<>>, !.i = 0,
                              !.pc = "updated"]
    /\ UNCHANGED svars

\* updatedScale: r := make(S, len(s))
UpdatedScaleMake ==
    /\ frame.pc = "updated"
    /\ frame' = [frame EXCEPT !.r = MakeSlice(Len(frame.s)), !.i = 0,
                              !.pc = "updated.loop"]
    /\ UNCHANGED svars

\* updatedScale: one round of for i, e := range s { r[i] = e * c }
UpdatedScaleIter ==
    /\ frame.pc = "updated.loop"
    /\ frame.i < Len(frame.s)
    /\ frame' = [frame EXCEPT
                    !.r[frame.i + 1] =
                        UpdatedScaleElem(frame.s[frame.i + 1], frame.c),
                    !.i = @ + 1]
    /\ UNCHANGED svars

\* updatedScale: return r
UpdatedScaleReturn ==
    /\ frame.pc = "updated.loop"
    /\ frame.i = Len(frame.s)
    /\ frame' = [frame EXCEPT !.ru = frame.r, !.r = <<>>, !.i = 0,
                              !.pc = "done"]
    /\ UNCHANGED svars

NextScale ==
    \/ ScaleMake
    \/ ScaleIter
    \/ ScaleReturn
    \/ UpdatedScaleMake
    \/ UpdatedScaleIter
    \/ UpdatedScaleReturn

SpecScale == InitScale /\ [][NextScale]_vars

\* r is e * c in int32: in range, right in its low 15 bits, the plain
\* product where that fits, and right on the overflowing products
IsWrappedProduct(r, e, c) ==
    /\ r \in Int32
    /\ r % 32768 = ((e % 32768) * (c % 32768)) % 32768
    /\ (e \in -46340..46340 /\ c \in -46340..46340) => r = e * c
    /\ e = 1 => r = c
    /\ (e = -1 /\ c # MinInt32) => r = -c
    /\ (c = -1 /\ e # MinInt32) => r = -e
    /\ (e = MinInt32 /\ c = -1) => r = MinInt32
    /\ (e = -1 /\ c = MinInt32) => r = MinInt32
    /\ (e = MaxInt32 /\ c = 2) => r = -2
    /\ (e = 2 /\ c = MaxInt32) => r = -2
    /\ (e = MaxInt32 /\ c = 3) => r = MaxInt32 - 2
    /\ (e = MinInt32 /\ c = 2) => r = 0
    /\ (e = 2 /\ c = MinInt32) => r = 0
    /\ (e = MinInt32 /\ c = 3) => r = MinInt32
    /\ (e = MaxInt32 /\ c = MaxInt32) => r = 1
    /\ (e = MinInt32 /\ c = MinInt32) => r = 0
    /\ (e = MaxInt32 /\ c = MinInt32) => r = MinInt32
    /\ (e = MinInt32 /\ c = MaxInt32) => r = MinInt32

\* C17: once both have returned, scale and updatedScale have given the same
\* sequence, as long as the input, each element the int32 product of the
\* input element and c, and the input slice is what it was.
C17_ScaleEquivalent ==
    /\ frame.pc \in {"updated", "updated.loop", "done"} =>
          /\ Len(frame.rs) = Len(frame.s0)
          /\ \A i \in 1..Len(frame.s0) :
                IsWrappedProduct(frame.rs[i], frame.s0[i], frame.c)
    /\ frame.pc = "done" =>
          /\ frame.ru = frame.rs
          /\ Len(frame.ru) = Len(frame.s0)
          /\ \A i \in 1..Len(frame.s0) :
                IsWrappedProduct(frame.ru[i], frame.s0[i], frame.c)
    /\ frame.s = frame.s0

\* C17 witness: both have returned on a full-length slice whose first
\* product overflows int32.
C17_Witness ==
    /\ frame.pc = "done"
    /\ Len(frame.s0) = MaxLen
    /\ frame.s0[1] = MaxInt32
    /\ frame.c = 3
    /\ frame.ru[1] = MaxInt32 - 2
    /\ frame.rs = frame.ru

=============================================================================
